---- MODULE Spec2Model ----
(***************************************************************************)
(* A model of scripts/reformat_music.ps1, the Plex music organizer: the    *)
(* name-resolution functions (Sanitize-Name, Format-TrackNumber, the       *)
(* artist / album / title resolution of the main loop) and the run of the  *)
(* script over a source directory and a target tree.                       *)
(*                                                                         *)
(* SpecForm models the download form of the web frontend                   *)
(* (frontend/src/App.tsx and its variant with an authorization key): the   *)
(* state of the component and its handleSubmit.                            *)
(*                                                                         *)
(* Strings are sequences of one-character strings, so that the regular     *)
(* expressions, Trim() and the digit conversions of the script are         *)
(* computed character by character.                                        *)
(***************************************************************************)
EXTENDS Integers, Sequences, FiniteSets, TLC

VARIABLES
    \* ---- the run of the script (Spec) ----
    pc,                     \* position in the script
    run,                    \* how many times the script has been started
    dryRun,                 \* $dryRun
    errorActionPreference,  \* $ErrorActionPreference of the session that runs the script
    sourceAvailable,        \* whether Get-ChildItem can enumerate $sourceDir
    sourceFiles,            \* the .mp3 files of $sourceDir: file id -> content
    targetDirExists,        \* whether $targetDir exists
    albumDirs,              \* the album directories of the target tree
    targetFiles,            \* the files of the target tree: path -> content
    mp3Files,               \* $mp3Files
    index,                  \* position of the foreach loop in $mp3Files
    processedCount,         \* $processedCount
    errorCount,             \* $errorCount
    outcome,                \* what the script reported for each file
    organized,              \* "Files have been organized for Plex!" was printed
    \* history of the current run
    sourceBefore,           \* sourceFiles when the run started
    targetBefore,           \* targetFiles when the run started
    dirsBefore,             \* the directories when the run started
    unreadable,             \* files whose Get-Mp3Metadata returned $null
    moveFailed,             \* files whose Move-Item failed
    destExisted,            \* files whose destination existed when they were processed
    envFault,               \* a tag read or a move has failed for an outside reason
    \* ---- the function-level specifications (SpecArtist, SpecTrack) ----
    upc,          \* position in the per-file name resolution
    rawTags,      \* what the shell reports for the file (GetDetailsOf), untrimmed
    baseName,     \* $file.BaseName
    metadata,     \* result of Get-Mp3Metadata
    artistName,   \* $artistName
    resolvedName, \* value of $artistName after line 112 (history)
    trackNum,     \* $trackNum
    \* ---- the download form (SpecForm) ----
    variant,      \* which component is mounted: "App" or "Auth" (with the key field)
    fpc,          \* position of handleSubmit: "idle", "fetch", "json"
    spotifyUrl,   \* state spotifyUrl
    authKey,      \* state authKey
    savedKey,     \* localStorage item plex_spotdl_auth_key
    loading,      \* state loading
    status,       \* state status
    request,      \* the request handleSubmit sent last
    response      \* what fetch gave for it

rvars == <<pc, run, dryRun, errorActionPreference, sourceAvailable, sourceFiles,
           targetDirExists, albumDirs, targetFiles, mp3Files, index, processedCount,
           errorCount, outcome, organized, sourceBefore, targetBefore, dirsBefore,
           unreadable, moveFailed, destExisted, envFault>>
uvars == <<upc, rawTags, baseName, metadata, artistName, resolvedName, trackNum>>
fvars == <<variant, fpc, spotifyUrl, authKey, savedKey, loading, status, request, response>>
vars == <<rvars, uvars, fvars>>

\* ------------------------------------------------------------------------
\* Characters and strings
\* ------------------------------------------------------------------------

\* char.IsWhiteSpace, within the model's alphabet
Whitespace == {" "}

\* [IO.Path]::GetInvalidFileNameChars() (Windows), within the model's alphabet
InvalidFileNameChars == {"\"", "<", ">", "|", ":", "*", "?", "\\", "/"}

Digits == {"0", "1", "2", "3", "4", "5", "6", "7", "8", "9"}

DigitValue(c) ==
    CASE c = "0" -> 0 [] c = "1" -> 1 [] c = "2" -> 2 [] c = "3" -> 3
      [] c = "4" -> 4 [] c = "5" -> 5 [] c = "6" -> 6 [] c = "7" -> 7
      [] c = "8" -> 8 [] c = "9" -> 9

DigitChar(n) ==
    CASE n = 0 -> "0" [] n = 1 -> "1" [] n = 2 -> "2" [] n = 3 -> "3"
      [] n = 4 -> "4" [] n = 5 -> "5" [] n = 6 -> "6" [] n = 7 -> "7"
      [] n = 8 -> "8" [] n = 9 -> "9"

\* -match and -split are case-insensitive: letters compare by their lower case
Lower(c) ==
    CASE c = "A" -> "a" [] c = "B" -> "b" [] c = "E" -> "e" [] c = "F" -> "f"
      [] c = "T" -> "t" [] OTHER -> c

SetMin(S) == CHOOSE x \in S : \A y \in S : x <= y
SetMax(S) == CHOOSE x \in S : \A y \in S : x >= y

EmptyString == <<>>

\* String.Trim()
Trim(s) ==
    LET keep == {i \in 1..Len(s) : s[i] \notin Whitespace}
    IN  IF keep = {} THEN EmptyString ELSE SubSeq(s, SetMin(keep), SetMax(keep))

\* [string]::IsNullOrWhiteSpace
IsNullOrWhiteSpace(s) == \A i \in 1..Len(s) : s[i] \in Whitespace

\* PowerShell truthiness of a string: non-empty
IsTrue(s) == Len(s) > 0

\* ------------------------------------------------------------------------
\* Regular expressions of the script.  A pattern is a sequence of elements,
\* each "\\s" (a whitespace character) or a literal character.
\* ------------------------------------------------------------------------

ElemMatches(e, c) == IF e = "\\s" THEN c \in Whitespace ELSE Lower(c) = Lower(e)

\* pattern pat matches s starting at position i
MatchesAt(s, i, pat) ==
    /\ i + Len(pat) - 1 <= Len(s)
    /\ \A j \in 1..Len(pat) : ElemMatches(pat[j], s[i + j - 1])

\* start positions of the matches of any alternative of pats in s
MatchPositions(s, pats) == {i \in 1..Len(s) : \E p \in pats : MatchesAt(s, i, p)}

\* ($s -split <pats>)[0]: the text before the leftmost match, or all of s
SplitFirst(s, pats) ==
    LET at == MatchPositions(s, pats)
    IN  IF at = {} THEN s ELSE SubSeq(s, 1, SetMin(at) - 1)

\* '[,;]|\sfeat\s|\sft\s|\s&\s'
MultiArtistPattern ==
    { <<",">>, <<";">>,
      <<"\\s", "f", "e", "a", "t", "\\s">>,
      <<"\\s", "f", "t", "\\s">>,
      <<"\\s", "&", "\\s">> }

\* '[,;&]'
SeparatorPattern == { <<",">>, <<";">>, <<"&">> }

\* '\sfeat\s|\sft\s'
FeatPattern == { <<"\\s", "f", "e", "a", "t", "\\s">>, <<"\\s", "f", "t", "\\s">> }

\* '^(.+?)\s*-\s*(.+)$' with the lazy group taking k characters: the rest is
\* optional whitespace, a hyphen, and at least one more character
HyphenAfter(s, k) ==
    \E h \in (k + 1)..(Len(s) - 1) :
        /\ s[h] = "-"
        /\ \A j \in (k + 1)..(h - 1) : s[j] \in Whitespace

\* $file.BaseName -match '^(.+?)\s*-\s*(.+)$'
BaseNameMatches(s) == \E k \in 1..Len(s) : HyphenAfter(s, k)

\* (variant: the group may be empty, as with '^(.*?)')
BaseNameLeftAnyHyphen(s) == SubSeq(s, 1, SetMin({h \in 1..Len(s) : s[h] = "-"}) - 1)

\* $matches[1] of '^(.+?)\s*-\s*(.+)$': the lazy group is the shortest that lets
\* the rest match
BaseNameLeft(s) == SubSeq(s, 1, SetMin({k \in 1..Len(s) : HyphenAfter(s, k)}))

\* $matches[1] of '^.+?\s*-\s*(.+)$': after the hyphen the greedy \s* takes the
\* whitespace, but leaves one character when nothing else follows
BaseNameRight(s) ==
    LET k    == SetMin({n \in 1..Len(s) : HyphenAfter(s, n)})
        h    == SetMin({j \in (k + 1)..Len(s) : s[j] = "-"})
        rest == {j \in (h + 1)..Len(s) : s[j] \notin Whitespace}
    IN  IF rest = {} THEN SubSeq(s, Len(s), Len(s))
        ELSE SubSeq(s, SetMin(rest), Len(s))

\* ------------------------------------------------------------------------
\* Functions of the script
\* ------------------------------------------------------------------------

Unknown == <<"U", "n", "k", "n", "o", "w", "n">>
UnknownArtist == Unknown \o <<" ", "A", "r", "t", "i", "s", "t">>
UnknownAlbum == Unknown \o <<" ", "A", "l", "b", "u", "m">>

\* Sanitize-Name with Trim() applied before the illegal characters are removed
SanitizeNameTrimFirst(name) ==
    LET trimmed  == Trim(name)
        stripped == SelectSeq(trimmed, LAMBDA c : c \notin InvalidFileNameChars)
    IN  IF IsNullOrWhiteSpace(stripped) THEN Unknown ELSE stripped

\* Sanitize-Name
SanitizeName(name) ==
    LET stripped == SelectSeq(name, LAMBDA c : c \notin InvalidFileNameChars)
        trimmed  == Trim(stripped)
    IN  IF IsNullOrWhiteSpace(trimmed) THEN Unknown ELSE trimmed

\* [int]$matches[1] (the digit runs of the model stay far below 2^31, where the
\* cast would throw)
RECURSIVE ToInt(_)
ToInt(ds) ==
    IF ds = <<>> THEN 0
    ELSE 10 * ToInt(SubSeq(ds, 1, Len(ds) - 1)) + DigitValue(ds[Len(ds)])

RECURSIVE DecimalDigits(_)
DecimalDigits(n) ==
    IF n < 10 THEN <<DigitChar(n)>>
    ELSE DecimalDigits(n \div 10) \o <<DigitChar(n % 10)>>

\* (variant: $num.ToString(), without the padding)
ToStringPlain(n) == DecimalDigits(n)

\* $num.ToString("00")
ToString00(n) ==
    LET d == DecimalDigits(n) IN IF Len(d) < 2 THEN <<"0">> \o d ELSE d

\* $matches[1] of '(\d+)': the leftmost run of digits, taken greedily
FirstDigitRun(s) ==
    LET first == SetMin({i \in 1..Len(s) : s[i] \in Digits})
        stop  == {j \in first..Len(s) : s[j] \notin Digits}
        last  == IF stop = {} THEN Len(s) ELSE SetMin(stop) - 1
    IN  SubSeq(s, first, last)

\* Format-TrackNumber
FormatTrackNumber(tn) ==
    IF IsNullOrWhiteSpace(tn) THEN <<"0", "0">>
    ELSE IF \E i \in 1..Len(tn) : tn[i] \in Digits
         THEN ToString00(ToInt(FirstDigitRun(tn)))
         ELSE <<"0", "0">>

\* Get-Mp3Metadata: the five properties, each trimmed ("" when absent)
TrimTag(v) == IF IsTrue(v) THEN Trim(v) ELSE EmptyString

GetMp3Metadata(raw) ==
    [ Artist      |-> TrimTag(raw.Artist),
      Album       |-> TrimTag(raw.Album),
      Title       |-> TrimTag(raw.Title),
      TrackNumber |-> TrimTag(raw.TrackNumber),
      AlbumArtist |-> TrimTag(raw.AlbumArtist) ]

\* (variant: Artist before AlbumArtist)
ResolveArtistTagFirst(md, base) ==
    LET tagged == IF IsTrue(md.Artist) THEN md.Artist ELSE md.AlbumArtist
    IN  IF IsNullOrWhiteSpace(tagged)
        THEN IF BaseNameMatches(base) THEN Trim(BaseNameLeft(base))
             ELSE UnknownArtist
        ELSE tagged

\* main loop, lines 101-112: AlbumArtist, else Artist, else the file name
ResolveArtist(md, base) ==
    LET tagged == IF IsTrue(md.AlbumArtist) THEN md.AlbumArtist ELSE md.Artist
    IN  IF IsNullOrWhiteSpace(tagged)
        THEN IF BaseNameMatches(base) THEN Trim(BaseNameLeft(base))
             ELSE UnknownArtist
        ELSE tagged

\* (variant: the condition of line 115 is the pattern of line 118 or of line 119)
FirstArtistAnySeparator(name) ==
    IF MatchPositions(name, SeparatorPattern \cup FeatPattern) # {}
    THEN Trim(SplitFirst(Trim(SplitFirst(name, SeparatorPattern)), FeatPattern))
    ELSE name

\* main loop, lines 114-120: keep the first of several artists
FirstArtist(name) ==
    IF MatchPositions(name, MultiArtistPattern) # {}
    THEN Trim(SplitFirst(Trim(SplitFirst(name, SeparatorPattern)), FeatPattern))
    ELSE name

\* main loop, line 123
ResolveAlbum(md) == IF IsTrue(md.Album) THEN md.Album ELSE UnknownAlbum

\* main loop, lines 126-133
ResolveTitle(md, base) ==
    IF IsTrue(md.Title) THEN md.Title
    ELSE IF BaseNameMatches(base) THEN Trim(BaseNameRight(base))
         ELSE base

\* "$trackNum - $trackTitle.mp3"
NewFileName(tn, title) == tn \o <<" ", "-", " ">> \o title \o <<".", "m", "p", "3">>

\* main loop, lines 101-147: the destination of a file below $targetDir
TargetPath(md, base) ==
    [ artist |-> SanitizeName(FirstArtist(ResolveArtist(md, base))),
      album  |-> SanitizeName(ResolveAlbum(md)),
      file   |-> NewFileName(FormatTrackNumber(md.TrackNumber),
                             SanitizeName(ResolveTitle(md, base))) ]

\* $albumDir
AlbumDir(path) == [artist |-> path.artist, album |-> path.album]

\* ------------------------------------------------------------------------
\* The file system
\* ------------------------------------------------------------------------

\* position of the ']' that closes a '[' at the head of pat, 0 when there is none
ClosingBracket(pat) ==
    LET c == {i \in 3..Len(pat) : pat[i] = "]"}
    IN  IF c = {} THEN 0 ELSE SetMin(c)

\* a PowerShell wildcard pattern against a name: '[...]' stands for one
\* character of the set; every other character of the model stands for itself
\* ('*' and '?' never reach a path: Sanitize-Name removes them)
RECURSIVE WildcardMatch(_, _)
WildcardMatch(pat, name) ==
    IF pat = <<>> THEN name = <<>>
    ELSE IF name = <<>> THEN FALSE
    ELSE IF pat[1] = "[" /\ ClosingBracket(pat) > 0
         THEN /\ \E i \in 2..(ClosingBracket(pat) - 1) : Lower(pat[i]) = Lower(name[1])
              /\ WildcardMatch(SubSeq(pat, ClosingBracket(pat) + 1, Len(pat)), Tail(name))
         ELSE /\ Lower(pat[1]) = Lower(name[1])
              /\ WildcardMatch(Tail(pat), Tail(name))

\* Test-Path $albumDir: -Path is a wildcard pattern
TestPathDir(dirs, dir) ==
    \E d \in dirs : WildcardMatch(dir.artist, d.artist) /\ WildcardMatch(dir.album, d.album)

\* Test-Path $targetPath: -Path is a wildcard pattern
TestPathFile(files, path) ==
    \E q \in DOMAIN files :
        /\ WildcardMatch(path.artist, q.artist)
        /\ WildcardMatch(path.album, q.album)
        /\ WildcardMatch(path.file, q.file)

\* New-Item -ItemType Directory -Path $albumDir -Force
NewItemDirectory(dirs, dir) == dirs \cup {dir}

\* (variant: Move-Item -Force, which replaces an existing destination)
MoveItemForceFails(files, path, ioError) == ioError

\* Move-Item without -Force fails when the destination exists (the destination is
\* taken literally) or on an I/O or permission error
MoveItemFails(files, path, ioError) == path \in DOMAIN files \/ ioError

\* the target tree after Move-Item has moved a file to path
MoveItemTarget(files, path, content) ==
    [q \in DOMAIN files \cup {path} |-> IF q = path THEN content ELSE files[q]]

\* the source directory after Move-Item has moved file f out of it
MoveItemSource(files, f) == [g \in DOMAIN files \ {f} |-> files[g]]

\* ------------------------------------------------------------------------
\* The files of the model
\* ------------------------------------------------------------------------

MaxFiles == 3
MaxRuns == 2

Tags(albumArtist, artist, album, title, track) ==
    [ Artist |-> artist, Album |-> album, Title |-> title,
      TrackNumber |-> track, AlbumArtist |-> albumArtist ]

\* The files that may be in the source directory.  Their names hold no wildcard
\* character ('[', ']'), so Get-Item and Move-Item -Path find the file they name;
\* the title of file 3 puts a '[...]' set into its destination, the
\* destination of file 4 is a name that set matches, and file 5 has the
\* destination of file 3, as file 2 has the destination of file 1.
\* 1: "A - S.mp3" without tags         -> A/Unknown Album/00 - S.mp3
\* 2: "x.mp3", artist A, title S       -> A/Unknown Album/00 - S.mp3
\* 3: "y.mp3", album artist B, album L,
\*    title "S[v]", track 3/12         -> B/L/03 - S[v].mp3
\* 4: "z.mp3", artist "B & A", album L,
\*    title "Sv", track 3              -> B/L/03 - Sv.mp3
\* 5: "w.mp3", artist B, album L,
\*    title "S[v]", track 3            -> B/L/03 - S[v].mp3
SampleFiles ==
    << [ baseName |-> <<"A", " ", "-", " ", "S">>,
         tags |-> Tags(<<>>, <<>>, <<>>, <<>>, <<>>) ],
       [ baseName |-> <<"x">>,
         tags |-> Tags(<<>>, <<"A">>, <<>>, <<"S">>, <<>>) ],
       [ baseName |-> <<"y">>,
         tags |-> Tags(<<"B">>, <<>>, <<"L">>, <<"S", "[", "v", "]">>, <<"3", "/", "1", "2">>) ],
       [ baseName |-> <<"z">>,
         tags |-> Tags(<<>>, <<"B", " ", "&", " ", "A">>, <<"L">>, <<"S", "v">>, <<"3">>) ],
       [ baseName |-> <<"w">>,
         tags |-> Tags(<<>>, <<"B">>, <<"L">>, <<"S", "[", "v", "]">>, <<"3">>) ] >>

FileIds == DOMAIN SampleFiles

\* the destination the script computes for each file
DestTable ==
    [f \in FileIds |->
        TargetPath(GetMp3Metadata(SampleFiles[f].tags), SampleFiles[f].baseName)]

DestOf(f) == DestTable[f]

\* the content of the copy of file f that run r put into the source directory
Content(f, r) == [file |-> f, copy |-> r]

\* the content of a file that was in the target tree before the first run
OldContent == [file |-> 0, copy |-> 0]

Outcomes == {"Moved", "SkippedExisting", "PreviewedOnly", "Failed"}

\* the orders in which Get-ChildItem may list the files S
Listings(S) ==
    {s \in [1..Cardinality(S) -> S] : \A i, j \in 1..Cardinality(S) : s[i] = s[j] => i = j}

\* ------------------------------------------------------------------------
\* The download form: values of its state
\* ------------------------------------------------------------------------

\* JavaScript's undefined and null
Undefined == "<undefined>"
Null == "<null>"

\* useState({ type: '', message: '' })
NoStatus == [type |-> "", message |-> ""]

NoBody == [kind |-> "none", message |-> Undefined, detail |-> Undefined]
NoRequest == [spotify_url |-> Undefined, key |-> Undefined]
NoResponse == [kind |-> "none", status |-> 0, body |-> NoBody]

\* no form is mounted
FormIdle ==
    /\ variant = "none"
    /\ fpc = "idle"
    /\ spotifyUrl = ""
    /\ authKey = ""
    /\ savedKey = Null
    /\ loading = FALSE
    /\ status = NoStatus
    /\ request = NoRequest
    /\ response = NoResponse

\* ------------------------------------------------------------------------
\* Spec: the run of the script
\* ------------------------------------------------------------------------

UnitIdle ==
    /\ upc = "idle"
    /\ rawTags = Tags(<<>>, <<>>, <<>>, <<>>, <<>>)
    /\ baseName = EmptyString
    /\ metadata = Tags(<<>>, <<>>, <<>>, <<>>, <<>>)
    /\ artistName = EmptyString
    /\ resolvedName = EmptyString
    /\ trackNum = EmptyString

Init ==
    /\ pc = "start"
    /\ run = 1
    /\ dryRun \in BOOLEAN
    /\ errorActionPreference \in {"Continue", "Stop"}
    /\ sourceAvailable \in BOOLEAN
    /\ \E S \in SUBSET FileIds :
        /\ Cardinality(S) <= MaxFiles
        /\ sourceAvailable \/ S = {}
        /\ sourceFiles = [f \in S |-> Content(f, 1)]
    /\ targetDirExists \in BOOLEAN
    /\ \E P \in SUBSET {DestOf(f) : f \in FileIds} :
        /\ targetDirExists \/ P = {}
        /\ targetFiles = [p \in P |-> OldContent]
        /\ albumDirs = {AlbumDir(p) : p \in P}
    /\ mp3Files = <<>>
    /\ index = 1
    /\ processedCount = 0
    /\ errorCount = 0
    /\ outcome = [f \in {} |-> ""]
    /\ organized = FALSE
    /\ sourceBefore = sourceFiles
    /\ targetBefore = targetFiles
    /\ dirsBefore = [target |-> targetDirExists, albums |-> albumDirs]
    /\ unreadable = {}
    /\ moveFailed = {}
    /\ destExisted = {}
    /\ envFault = FALSE
    /\ UnitIdle
    /\ FormIdle

\* lines 10-14: create the target directory if it doesn't exist
CreateTargetDir ==
    /\ pc = "start"
    /\ targetDirExists' = TRUE
    /\ pc' = "discover"
    /\ UNCHANGED <<run, dryRun, errorActionPreference, sourceAvailable, sourceFiles,
                   albumDirs, targetFiles, mp3Files, index, processedCount, errorCount,
                   outcome, organized, sourceBefore, targetBefore, dirsBefore,
                   unreadable, moveFailed, destExisted, envFault, uvars, fvars>>

\* lines 81-88: Get-ChildItem.  Its failure is a non-terminating error: the
\* script goes on with $mp3Files = $null unless the session's preference is Stop
Discover ==
    /\ pc = "discover"
    /\ IF sourceAvailable
       THEN /\ mp3Files' \in Listings(DOMAIN sourceFiles)
            /\ pc' = "loop"
       ELSE /\ mp3Files' = <<>>
            /\ pc' = IF errorActionPreference = "Stop" THEN "aborted" ELSE "loop"
    /\ index' = 1
    /\ processedCount' = 0
    /\ errorCount' = 0
    /\ UNCHANGED <<run, dryRun, errorActionPreference, sourceAvailable, sourceFiles,
                   targetDirExists, albumDirs, targetFiles, outcome, organized,
                   sourceBefore, targetBefore, dirsBefore, unreadable, moveFailed,
                   destExisted, envFault, uvars, fvars>>

\* lines 95-99: Get-Mp3Metadata returned $null
ReportUnreadable(f) ==
    /\ errorCount' = errorCount + 1
    /\ outcome' = [g \in DOMAIN outcome \cup {f} |-> IF g = f THEN "Failed" ELSE outcome[g]]
    /\ unreadable' = unreadable \cup {f}
    /\ envFault' = TRUE
    /\ UNCHANGED <<processedCount, sourceFiles, albumDirs, targetFiles, moveFailed, destExisted>>

\* lines 175-178: the dry run
ReportDryRun(f) ==
    /\ processedCount' = processedCount + 1
    /\ outcome' = [g \in DOMAIN outcome \cup {f} |-> IF g = f THEN "PreviewedOnly" ELSE outcome[g]]
    /\ UNCHANGED <<errorCount, sourceFiles, albumDirs, targetFiles, unreadable, moveFailed,
                   destExisted, envFault>>

\* lines 154-174: the directories, the existence check and the move.  A failure
\* of Move-Item is a non-terminating error: the catch block runs only when the
\* session's preference is Stop, otherwise the script goes on to line 167
MoveFile(f, ioError) ==
    LET path == DestOf(f)
        dirs == IF TestPathDir(albumDirs, AlbumDir(path)) THEN albumDirs
                ELSE NewItemDirectory(albumDirs, AlbumDir(path))
    IN  /\ albumDirs' = dirs
        /\ destExisted' = IF path \in DOMAIN targetFiles THEN destExisted \cup {f}
                          ELSE destExisted
        /\ unreadable' = unreadable
        /\ IF TestPathFile(targetFiles, path)
           THEN /\ outcome' = [g \in DOMAIN outcome \cup {f} |->
                                  IF g = f THEN "SkippedExisting" ELSE outcome[g]]
                /\ UNCHANGED <<processedCount, errorCount, sourceFiles, targetFiles,
                               moveFailed, envFault>>
           ELSE IF MoveItemFails(targetFiles, path, ioError)
           THEN /\ moveFailed' = moveFailed \cup {f}
                /\ envFault' = (envFault \/ ioError)
                /\ UNCHANGED <<sourceFiles, targetFiles>>
                /\ IF errorActionPreference = "Stop"
                   THEN /\ errorCount' = errorCount + 1
                        /\ processedCount' = processedCount
                        /\ outcome' = [g \in DOMAIN outcome \cup {f} |->
                                          IF g = f THEN "Failed" ELSE outcome[g]]
                   ELSE /\ processedCount' = processedCount + 1
                        /\ errorCount' = errorCount
                        /\ outcome' = [g \in DOMAIN outcome \cup {f} |->
                                          IF g = f THEN "Moved" ELSE outcome[g]]
           ELSE /\ targetFiles' = MoveItemTarget(targetFiles, path, sourceFiles[f])
                /\ sourceFiles' = MoveItemSource(sourceFiles, f)
                /\ processedCount' = processedCount + 1
                /\ outcome' = [g \in DOMAIN outcome \cup {f} |->
                                  IF g = f THEN "Moved" ELSE outcome[g]]
                /\ UNCHANGED <<errorCount, moveFailed, envFault>>

\* lines 90-181: one iteration of the foreach loop
ProcessFile ==
    /\ pc = "loop"
    /\ index <= Len(mp3Files)
    /\ \E readable \in BOOLEAN, ioError \in BOOLEAN :
        IF ~readable THEN ReportUnreadable(mp3Files[index])
        ELSE IF dryRun THEN ReportDryRun(mp3Files[index])
        ELSE MoveFile(mp3Files[index], ioError)
    /\ index' = index + 1
    /\ UNCHANGED <<pc, run, dryRun, errorActionPreference, sourceAvailable, targetDirExists,
                   mp3Files, organized, sourceBefore, targetBefore, dirsBefore, uvars, fvars>>

\* lines 183-198: the summary
Summary ==
    /\ pc = "loop"
    /\ index > Len(mp3Files)
    /\ organized' = ~dryRun
    /\ pc' = "done"
    /\ UNCHANGED <<run, dryRun, errorActionPreference, sourceAvailable, sourceFiles,
                   targetDirExists, albumDirs, targetFiles, mp3Files, index, processedCount,
                   errorCount, outcome, sourceBefore, targetBefore, dirsBefore,
                   unreadable, moveFailed, destExisted, envFault, uvars, fvars>>

\* the script is run again, with the same files in the source directory: the
\* files the last run moved away are there again as new copies
Rerun ==
    /\ pc = "done"
    /\ run < MaxRuns
    /\ run' = run + 1
    /\ sourceFiles' = [f \in DOMAIN sourceBefore |->
                          IF f \in DOMAIN sourceFiles THEN sourceFiles[f]
                          ELSE Content(f, run + 1)]
    /\ sourceBefore' = sourceFiles'
    /\ targetBefore' = targetFiles
    /\ dirsBefore' = [target |-> targetDirExists, albums |-> albumDirs]
    /\ pc' = "start"
    /\ mp3Files' = <<>>
    /\ index' = 1
    /\ processedCount' = 0
    /\ errorCount' = 0
    /\ outcome' = [f \in {} |-> ""]
    /\ organized' = FALSE
    /\ unreadable' = {}
    /\ moveFailed' = {}
    /\ destExisted' = {}
    /\ UNCHANGED <<dryRun, errorActionPreference, sourceAvailable, targetDirExists,
                   albumDirs, targetFiles, envFault, uvars, fvars>>

Next == CreateTargetDir \/ Discover \/ ProcessFile \/ Summary \/ Rerun

Spec == Init /\ [][Next]_vars

\* ------------------------------------------------------------------------
\* Properties of the run
\* ------------------------------------------------------------------------

Handled == DOMAIN outcome
Failures == unreadable \cup moveFailed

\* file f is still in the source directory, as it was when the run started
AtSource(f) == f \in DOMAIN sourceFiles /\ sourceFiles[f] = sourceBefore[f]

\* file f is at its destination in the target tree
AtDestination(f) ==
    DestOf(f) \in DOMAIN targetFiles /\ targetFiles[DestOf(f)] = sourceBefore[f]

\* every file the target tree held when the run started is there, unchanged
TargetKept ==
    \A p \in DOMAIN targetBefore : p \in DOMAIN targetFiles /\ targetFiles[p] = targetBefore[p]

\* C1: in a live run a file whose destination already exists is reported as
\* skipped and stays in the source directory, and no file of the target tree is
\* ever overwritten or removed.
C1_ExistingIsSkipped ==
    /\ ~dryRun => \A f \in destExisted :
                      /\ f \in Handled
                      /\ outcome[f] = "SkippedExisting"
                      /\ AtSource(f)
    /\ TargetKept

\* C2: a dry run leaves the file system as it found it: no directory is created
\* and no file is moved, from the start of the script to its end.
C2_DryRunChangesNothing ==
    dryRun =>
        /\ targetDirExists = dirsBefore.target
        /\ albumDirs = dirsBefore.albums
        /\ targetFiles = targetBefore
        /\ sourceFiles = sourceBefore

\* C3: every file whose tags cannot be read or whose move fails is counted as
\* one error and not as processed, and the loop still handles every discovered
\* file before the summary.
C3_FailuresAreCounted ==
    /\ errorCount = Cardinality(Failures)
    /\ \A f \in Failures : f \in Handled /\ outcome[f] = "Failed"
    /\ processedCount <= Cardinality(Handled \ Failures)
    /\ pc = "done" => Handled = DOMAIN sourceBefore

C5_SecondRunSkipsAll ==
    (run = 2 /\ pc = "done" /\ ~dryRun /\ ~envFault) =>
        /\ \A f \in DOMAIN sourceBefore : f \in Handled /\ outcome[f] = "SkippedExisting"
        /\ targetFiles = targetBefore

\* C6: when the source directory cannot be enumerated the script stops at the
\* discovery with a top-level error: it processes nothing, prints no summary
\* and does not report success.
C6_UnavailableSourceAborts ==
    ~sourceAvailable =>
        /\ pc \in {"start", "discover", "aborted"}
        /\ ~organized

\* the files Get-ChildItem listed
Discovered == {mp3Files[i] : i \in 1..Len(mp3Files)}

\* what became of the files the loop has handled
MovedFiles == {f \in Handled : ~AtSource(f) /\ AtDestination(f)}
SkippedFiles == {f \in Handled : outcome[f] = "SkippedExisting"}
PreviewedFiles == {f \in Handled : outcome[f] = "PreviewedOnly"}
FailedFiles == Failures

\* C12: every handled file has exactly one outcome among Moved,
\* SkippedExisting, PreviewedOnly and Failed, a file with unreadable tags is
\* never moved, and at the end of the run processedCount is the number of moved
\* and previewed files, errorCount the number of failed files, and the two
\* counts and the skipped files add up to the discovered files.
C12_CountsMatchOutcomes ==
    /\ \A f \in Handled :
          /\ outcome[f] \in Outcomes
          /\ Cardinality({S \in {MovedFiles, SkippedFiles, PreviewedFiles, FailedFiles} :
                              f \in S}) = 1
    /\ \A f \in unreadable : AtSource(f)
    /\ pc = "done" =>
          /\ Handled = Discovered
          /\ processedCount = Cardinality(MovedFiles) + Cardinality(PreviewedFiles)
          /\ errorCount = Cardinality(FailedFiles)
          /\ processedCount + errorCount + Cardinality(SkippedFiles)
               = Cardinality(Discovered)

\* the position of file f in the listing
Position(f) == CHOOSE i \in 1..Len(mp3Files) : mp3Files[i] = f

\* the listed files that resolve to the destination of f, a path that did not
\* exist when the run started
Colliding(f) ==
    IF DestOf(f) \in DOMAIN targetBefore THEN {}
    ELSE {g \in Discovered \ {f} : DestOf(g) = DestOf(f)}

\* C13: in a live run, of the listed files that resolve to one destination that
\* did not exist, the first in the listing is moved and every later one is
\* reported as skipped and stays in the source directory (stated for the runs
\* in which no tag read and no move fails for an outside reason).
C13_FirstOfCollisionMoves ==
    (pc = "done" /\ ~dryRun /\ ~envFault) =>
        \A f \in Discovered :
            Colliding(f) # {} =>
                IF \A g \in Colliding(f) : Position(f) < Position(g)
                THEN outcome[f] = "Moved" /\ f \in MovedFiles
                ELSE outcome[f] = "SkippedExisting" /\ AtSource(f)

\* ------------------------------------------------------------------------
\* Bounded input strings
\* ------------------------------------------------------------------------

MaxTokens == 3
MaxTrackLen == 3

RECURSIVE Concats(_, _)
Concats(T, n) ==
    IF n = 0 THEN {EmptyString}
    ELSE LET prev == Concats(T, n - 1)
         IN  prev \cup {p \o t : p \in prev, t \in T}

NameTokens ==
    { <<"A">>, <<" ">>, <<",">>, <<";">>, <<"&">>, <<"-">>, <<"?">>,
      <<"f", "t">>, <<" ", "F", "t", " ">>, <<" ", "f", "e", "a", "t", " ">> }

NameStrings == Concats(NameTokens, MaxTokens)

FewStrings == { EmptyString, <<"B">>, <<"B", ",", "A">>, <<"B", " ", "-", " ", "A">> }
BlankStrings == { EmptyString, <<" ">> }

TrackChars == { <<"0">>, <<"1">>, <<"3">>, <<"/">>, <<" ">>, <<"a">> }
TrackStrings == Concats(TrackChars, MaxTrackLen)

RawTags(albumArtist, artist, track) ==
    [ Artist |-> artist, Album |-> EmptyString, Title |-> EmptyString,
      TrackNumber |-> track, AlbumArtist |-> albumArtist ]

NoMetadata == [ Artist |-> EmptyString, Album |-> EmptyString, Title |-> EmptyString,
                TrackNumber |-> EmptyString, AlbumArtist |-> EmptyString ]

\* ------------------------------------------------------------------------
\* SpecArtist: the artist resolution of one file, line by line
\* ------------------------------------------------------------------------

RunIdle ==
    /\ pc = "idle"
    /\ run = 0
    /\ dryRun = TRUE
    /\ errorActionPreference = "Continue"
    /\ sourceAvailable = FALSE
    /\ sourceFiles = [f \in {} |-> ""]
    /\ targetDirExists = FALSE
    /\ albumDirs = {}
    /\ targetFiles = [f \in {} |-> ""]
    /\ mp3Files = <<>>
    /\ index = 1
    /\ processedCount = 0
    /\ errorCount = 0
    /\ outcome = [f \in {} |-> ""]
    /\ organized = FALSE
    /\ sourceBefore = [f \in {} |-> ""]
    /\ targetBefore = [f \in {} |-> ""]
    /\ dirsBefore = [target |-> FALSE, albums |-> {}]
    /\ unreadable = {}
    /\ moveFailed = {}
    /\ destExisted = {}
    /\ envFault = FALSE

InitArtist ==
    /\ RunIdle
    /\ FormIdle
    /\ upc = "read"
    /\ \/ \E aa \in NameStrings, a \in FewStrings, b \in FewStrings :
            rawTags = RawTags(aa, a, EmptyString) /\ baseName = b
       \/ \E aa \in BlankStrings, a \in NameStrings, b \in FewStrings :
            rawTags = RawTags(aa, a, EmptyString) /\ baseName = b
       \/ \E aa \in BlankStrings, a \in BlankStrings, b \in NameStrings :
            rawTags = RawTags(aa, a, EmptyString) /\ baseName = b
    /\ metadata = NoMetadata
    /\ artistName = EmptyString
    /\ resolvedName = EmptyString
    /\ trackNum = EmptyString

\* line 93
ReadMetadata ==
    /\ upc = "read"
    /\ metadata' = GetMp3Metadata(rawTags)
    /\ upc' = "resolve"
    /\ UNCHANGED <<rawTags, baseName, artistName, resolvedName, trackNum, rvars, fvars>>

\* lines 101-112
ResolveArtistStep ==
    /\ upc = "resolve"
    /\ artistName' = ResolveArtist(metadata, baseName)
    /\ resolvedName' = ResolveArtist(metadata, baseName)
    /\ upc' = "multi"
    /\ UNCHANGED <<rawTags, baseName, metadata, trackNum, rvars, fvars>>

\* lines 114-120
FirstArtistStep ==
    /\ upc = "multi"
    /\ artistName' = FirstArtist(artistName)
    /\ upc' = "sanitize"
    /\ UNCHANGED <<rawTags, baseName, metadata, resolvedName, trackNum, rvars, fvars>>

\* line 139
SanitizeArtistStep ==
    /\ upc = "sanitize"
    /\ artistName' = SanitizeName(artistName)
    /\ upc' = "resolved"
    /\ UNCHANGED <<rawTags, baseName, metadata, resolvedName, trackNum, rvars, fvars>>

NextArtist == ReadMetadata \/ ResolveArtistStep \/ FirstArtistStep \/ SanitizeArtistStep

SpecArtist == InitArtist /\ [][NextArtist]_vars

\* ------------------------------------------------------------------------
\* SpecTrack: the track number of one file
\* ------------------------------------------------------------------------

InitTrack ==
    /\ RunIdle
    /\ FormIdle
    /\ upc = "read"
    /\ \E t \in TrackStrings : rawTags = RawTags(EmptyString, EmptyString, t)
    /\ baseName = EmptyString
    /\ metadata = NoMetadata
    /\ artistName = EmptyString
    /\ resolvedName = EmptyString
    /\ trackNum = EmptyString

\* line 136
FormatTrackStep ==
    /\ upc = "resolve"
    /\ trackNum' = FormatTrackNumber(metadata.TrackNumber)
    /\ upc' = "formatted"
    /\ UNCHANGED <<rawTags, baseName, metadata, artistName, resolvedName, rvars, fvars>>

NextTrack == ReadMetadata \/ FormatTrackStep

SpecTrack == InitTrack /\ [][NextTrack]_vars

\* ------------------------------------------------------------------------
\* Properties of the name resolution
\* ------------------------------------------------------------------------

IsDigitString(s) == \A i \in 1..Len(s) : s[i] \in Digits

\* the maximal run of digits that starts at the first digit of s
LeadingRun(s) ==
    LET i == SetMin({n \in 1..Len(s) : s[n] \in Digits})
        j == SetMax({n \in i..Len(s) : \A m \in i..n : s[m] \in Digits})
    IN  SubSeq(s, i, j)

\* a digit string without its leading zeros, then padded with zeros to two digits
AtLeastTwoDigits(ds) ==
    LET nz   == {i \in 1..Len(ds) : ds[i] # "0"}
        core == IF nz = {} THEN EmptyString ELSE SubSeq(ds, SetMin(nz), Len(ds))
    IN  CASE Len(core) = 0 -> <<"0", "0">>
          [] Len(core) = 1 -> <<"0">> \o core
          [] OTHER -> core

HasDigit(s) == \E i \in 1..Len(s) : s[i] \in Digits

Before(s, i) == SubSeq(s, 1, i - 1)

\* positions of s where the word w stands between two whitespace characters
\* (the position is that of the leading whitespace; letters in either case)
SpacedWordAt(s, w) ==
    {i \in 1..Len(s) :
        /\ i + Len(w) + 1 <= Len(s)
        /\ s[i] \in Whitespace
        /\ s[i + Len(w) + 1] \in Whitespace
        /\ \A j \in 1..Len(w) : Lower(s[i + j]) = w[j]}

FeatWordAt(s) == SpacedWordAt(s, <<"f", "e", "a", "t">>) \cup SpacedWordAt(s, <<"f", "t">>)
SeparatorAt(s) == {i \in 1..Len(s) : s[i] \in {",", ";", "&"}}

\* the first component of a name: the text before the first ',', ';' or '&',
\* trimmed, then the text of that before the first spaced feat / ft, trimmed
FirstComponent(s) ==
    LET a == IF SeparatorAt(s) = {} THEN s ELSE Trim(Before(s, SetMin(SeparatorAt(s))))
    IN  IF FeatWordAt(a) = {} THEN Trim(a) ELSE Trim(Before(a, SetMin(FeatWordAt(a))))

\* C8 as stated: a resolved artist name that contains ',', ';', '&' or a spaced
\* feat / ft is cut to its first component; any other name is left unchanged.
C8_AnyAmpersand ==
    upc = "sanitize" =>
        IF SeparatorAt(resolvedName) # {} \/ FeatWordAt(resolvedName) # {}
        THEN artistName = FirstComponent(resolvedName)
        ELSE artistName = resolvedName

\* a name that lists several artists: it contains ',' or ';', or '&', feat or
\* ft between two whitespace characters
ListsSeveralArtists(s) ==
    \/ \E i \in 1..Len(s) : s[i] \in {",", ";"}
    \/ SpacedWordAt(s, <<"&">>) # {}
    \/ FeatWordAt(s) # {}

\* the first-component-only form of a name
FirstComponentForm(s) == IF ListsSeveralArtists(s) THEN FirstComponent(s) ELSE s

\* C8 as amended: a resolved artist name that contains ',' or ';', or '&', feat
\* or ft between two whitespace characters, is cut to its first component; any
\* other name, one with an unspaced '&' included, is left unchanged.
C8_FirstArtist ==
    upc = "sanitize" =>
        IF ListsSeveralArtists(resolvedName)
        THEN artistName = FirstComponent(resolvedName)
        ELSE artistName = resolvedName

\* "A feat A" gives "A"
C8_Witness ==
    /\ upc = "sanitize"
    /\ resolvedName = <<"A", " ", "f", "e", "a", "t", " ", "A">>
    /\ artistName = <<"A">>

InnerHyphens(b) == {h \in 2..(Len(b) - 1) : b[h] = "-"}

\* the X of a base name "X - Y": the text before its first inner hyphen, trimmed
LeftOfHyphen(b) == Trim(Before(b, SetMin(InnerHyphens(b))))

NoArtistTags == metadata.AlbumArtist = EmptyString /\ metadata.Artist = EmptyString

\* C10 as stated: with empty albumArtist and artist tags, a base name "X - Y"
\* resolves to the sanitized X, and a base name without the hyphen pattern to
\* "Unknown Artist".
C10_SanitizedLeft ==
    (upc = "resolved" /\ NoArtistTags) =>
        IF InnerHyphens(baseName) # {}
        THEN artistName = SanitizeName(LeftOfHyphen(baseName))
        ELSE artistName = UnknownArtist

\* C10 as amended: with empty albumArtist and artist tags, a base name with an
\* inner hyphen resolves to the sanitized first-component-only form of the text X before
\* its first inner hyphen, and any other base name to "Unknown Artist".
C10_FileNameArtist ==
    (upc = "resolved" /\ NoArtistTags) =>
        IF InnerHyphens(baseName) # {}
        THEN artistName = SanitizeName(FirstComponentForm(LeftOfHyphen(baseName)))
        ELSE artistName = UnknownArtist

\* "A - ?" gives "A"
C10_Witness ==
    /\ upc = "resolved"
    /\ NoArtistTags
    /\ baseName = <<"A", "-", "?">>
    /\ artistName = <<"A">>

\* ------------------------------------------------------------------------
\* SpecSanitize: one call of Sanitize-Name
\* ------------------------------------------------------------------------

\* the argument $name of the call: any string of the bounded alphabet,
\* illegal characters and surrounding whitespace included
InitSanitize ==
    /\ RunIdle
    /\ FormIdle
    /\ upc = "sanitize"
    /\ rawTags = NoMetadata
    /\ baseName = EmptyString
    /\ metadata = NoMetadata
    /\ artistName \in NameStrings
    /\ resolvedName = EmptyString
    /\ trackNum = EmptyString

\* lines 139-141: $x = Sanitize-Name $x; resolvedName keeps the argument
SanitizeStep ==
    /\ upc = "sanitize"
    /\ resolvedName' = artistName
    /\ artistName' = SanitizeName(artistName)
    /\ upc' = "sanitized"
    /\ UNCHANGED <<rawTags, baseName, metadata, trackNum, rvars, fvars>>

NextSanitize == SanitizeStep

SpecSanitize == InitSanitize /\ [][NextSanitize]_vars

\* the string has nothing but illegal characters and whitespace (or is empty)
OnlyIllegalOrBlank(s) ==
    \A i \in 1..Len(s) : s[i] \in InvalidFileNameChars \cup Whitespace

HasIllegalChar(s) == \E i \in 1..Len(s) : s[i] \in InvalidFileNameChars

\* C11: Sanitize-Name is idempotent (sanitizing its result again changes
\* nothing); an argument that is empty or made only of illegal characters and
\* whitespace gives "Unknown"; and the result is never empty and never has an
\* illegal character.
C11_SanitizeIdempotent ==
    upc = "sanitized" =>
        /\ SanitizeName(artistName) = artistName
        /\ OnlyIllegalOrBlank(resolvedName) => artistName = Unknown
        /\ artistName # EmptyString
        /\ ~HasIllegalChar(artistName)

\* removing an illegal character exposed a trailing blank, which Trim() took
C11_Witness ==
    /\ upc = "sanitized"
    /\ resolvedName = <<"A", " ", "?">>
    /\ artistName = <<"A">>

\* ------------------------------------------------------------------------
\* SpecForm: the download form of the web frontend
\* ------------------------------------------------------------------------

\* what the user may type into the two fields
Urls == {"", "track", "playlist"}
Keys == {"", "key"}

\* what the backend, or the proxy in front of it, may answer
HttpStatuses == {200, 201, 403, 404, 500}
Fields == {Undefined, "", "text"}
Bodies ==
    {[kind |-> k, message |-> Undefined, detail |-> Undefined] : k \in {"text", "null"}}
      \cup {[kind |-> "object", message |-> m, detail |-> d] : m \in Fields, d \in Fields}
Responses == {[kind |-> "response", status |-> n, body |-> b] : n \in HttpStatuses, b \in Bodies}

\* fetch rejected: the request never got an answer
Rejected == [kind |-> "rejected", status |-> 0, body |-> NoBody]

\* a ?? d: only undefined and null give way to the default
OrElseNullish(v, d) == IF v \in {Undefined, Null} THEN d ELSE v

\* a || d: every falsy value gives way to the default
OrElse(v, d) == IF v \in {Undefined, Null, ""} THEN d ELSE v

\* response.ok
Ok(r) == r.kind = "response" /\ r.status >= 200 /\ r.status <= 299

\* await response.json() throws on a body that is not JSON
JsonThrows(body) == body.kind = "text"

\* data.message and data.detail throw when the body is the JSON value null
FieldThrows(body) == body.kind = "null"

ConnectFailed == [type |-> "error", message |-> "Failed to connect to backend service"]

\* the branch of handleSubmit the response r takes once its body was read:
\* "ok", "forbidden" (only in the variant with the key), "failed", or "catch"
Branch(v, r) ==
    IF JsonThrows(r.body) THEN "catch"
    ELSE IF Ok(r) THEN (IF FieldThrows(r.body) THEN "catch" ELSE "ok")
    ELSE IF v = "Auth" /\ r.status = 403 THEN "forbidden"
    ELSE IF FieldThrows(r.body) THEN "catch" ELSE "failed"

\* the status handleSubmit sets for the response r
StatusFor(v, r) ==
    CASE Branch(v, r) = "ok" ->
            [type |-> "success",
             message |-> OrElse(r.body.message, "Download started successfully!")]
      [] Branch(v, r) = "forbidden" ->
            [type |-> "error", message |-> "Invalid Authorization Key"]
      [] Branch(v, r) = "failed" ->
            [type |-> "error", message |-> OrElse(r.body.detail, "Failed to start download")]
      [] OTHER -> ConnectFailed

\* the component after its first render and, in the variant with the key, the
\* effect that loads the saved key
InitForm ==
    /\ RunIdle
    /\ UnitIdle
    /\ variant \in {"App", "Auth"}
    /\ fpc = "idle"
    /\ spotifyUrl = ""
    /\ savedKey \in {Null} \cup Keys
    /\ authKey = IF variant = "Auth" /\ savedKey \notin {Null, ""} THEN savedKey ELSE ""
    /\ loading = FALSE
    /\ status = NoStatus
    /\ request = NoRequest
    /\ response = NoResponse

\* onChange of the URL field, which is disabled while loading
ChangeUrl(v) ==
    /\ variant # "none"
    /\ ~loading
    /\ v # spotifyUrl
    /\ spotifyUrl' = v
    /\ UNCHANGED <<variant, fpc, authKey, savedKey, loading, status, request, response,
                   rvars, uvars>>

\* handleAuthChange
HandleAuthChange(v) ==
    /\ variant = "Auth"
    /\ v # authKey
    /\ authKey' = v
    /\ savedKey' = v
    /\ UNCHANGED <<variant, fpc, spotifyUrl, loading, status, request, response,
                   rvars, uvars>>

\* the submit button is disabled
SubmitDisabled ==
    \/ spotifyUrl = ""
    \/ variant = "Auth" /\ authKey = ""
    \/ loading

\* handleSubmit up to the await of fetch
HandleSubmit ==
    /\ variant # "none"
    /\ fpc = "idle"
    /\ ~SubmitDisabled
    /\ loading' = TRUE
    /\ status' = NoStatus
    /\ request' = [spotify_url |-> spotifyUrl,
                   key |-> IF variant = "Auth" THEN authKey ELSE Undefined]
    /\ response' = NoResponse
    /\ fpc' = "fetch"
    /\ UNCHANGED <<variant, spotifyUrl, authKey, savedKey, rvars, uvars>>

\* fetch settles: with a response, whose body is read next, or with a
\* rejection, which goes to the catch and the finally block
FetchSettles ==
    /\ fpc = "fetch"
    /\ \E r \in Responses \cup {Rejected} :
        /\ response' = r
        /\ IF r = Rejected
           THEN /\ status' = ConnectFailed
                /\ loading' = FALSE
                /\ fpc' = "idle"
           ELSE /\ fpc' = "json"
                /\ UNCHANGED <<status, loading>>
    /\ UNCHANGED <<variant, spotifyUrl, authKey, savedKey, request, rvars, uvars>>

\* response.json() settles and handleSubmit runs to its end
JsonSettles ==
    /\ fpc = "json"
    /\ status' = StatusFor(variant, response)
    /\ spotifyUrl' = IF Branch(variant, response) = "ok" THEN "" ELSE spotifyUrl
    /\ loading' = FALSE
    /\ fpc' = "idle"
    /\ UNCHANGED <<variant, authKey, savedKey, request, response, rvars, uvars>>

NextForm ==
    \/ \E v \in Urls : ChangeUrl(v)
    \/ \E v \in Keys : HandleAuthChange(v)
    \/ HandleSubmit
    \/ FetchSettles
    \/ JsonSettles

SpecForm == InitForm /\ [][NextForm]_vars

\* the request gets an outcome: the promise of fetch settles, and so does the
\* promise of response.json()
SpecFormLive == SpecForm /\ WF_vars(FetchSettles) /\ WF_vars(JsonSettles)

\* handleSubmit ends in this step
Settles == fpc # "idle" /\ fpc' = "idle"

\* the outcome of the request is an error: no answer, an answer that is not ok,
\* or a body that cannot be parsed
ErrorOutcome(r) == r = Rejected \/ ~Ok(r) \/ JsonThrows(r.body)

\* C14: every handleSubmit call sets loading and clears the status; when the
\* request has its outcome, loading is false again and the status message is
\* not empty; the status is a success, and the URL field is cleared, only when
\* the response was ok; on an error outcome the URL field is kept; and a
\* loading form always gets there.
C14_SubmitSettles ==
    /\ [][HandleSubmit => (loading' /\ status' = NoStatus)]_vars
    /\ [][Settles =>
            /\ ~loading'
            /\ status'.message # ""
            /\ (status'.type = "success" \/ spotifyUrl' # spotifyUrl) =>
                  (Ok(response') /\ status'.type = "success" /\ spotifyUrl' = "")
            /\ ErrorOutcome(response') =>
                  (status'.type = "error" /\ spotifyUrl' = spotifyUrl
                     /\ spotifyUrl' = request.spotify_url)]_vars
    /\ (loading ~> (~loading /\ status.message # ""))

\* an ok response whose body has an empty message: the default text is shown
\* and the URL field is cleared
C14_Witness ==
    /\ fpc = "idle"
    /\ Ok(response)
    /\ response.body.kind = "object"
    /\ response.body.message = ""
    /\ status = [type |-> "success", message |-> "Download started successfully!"]
    /\ request.spotify_url = "track"
    /\ spotifyUrl = ""
    /\ ~loading

\* C15: in the form with the key, a response with status 403 shows the error
\* 'Invalid Authorization Key' whatever its body is, and any other response
\* that is not ok shows the detail of its body or 'Failed to start download'.
C15_ForbiddenShowsInvalidKey ==
    (variant = "Auth" /\ fpc = "idle" /\ response.kind = "response" /\ ~Ok(response)) =>
        IF response.status = 403
        THEN status = [type |-> "error", message |-> "Invalid Authorization Key"]
        ELSE status = [type |-> "error",
                       message |-> IF response.body.kind = "object"
                                   THEN OrElse(response.body.detail, "Failed to start download")
                                   ELSE "Failed to start download"]

====
